---------------------------- MODULE Spec2Model ----------------------------
(***************************************************************************)
(* Model of the Anchor-IDL account decoder of the Account Data Viewer      *)
(* (AccountDataTool): the byte readers, the recursive type decoder, the    *)
(* discriminator match and the account resolver.                           *)
(*                                                                         *)
(* Conventions                                                             *)
(*   - a buffer (Uint8Array / DataView over it) is a sequence of bytes;    *)
(*     the byte at JS offset o is bytes[o + 1];                            *)
(*   - an IdlType is a record that has exactly the key the code tests:     *)
(*     [prim |-> "u8"] for the JSON strings, [vec |-> T], [option |-> T],  *)
(*     [array |-> [elem |-> T, len |-> N]], [defined |-> "Name"];          *)
(*   - a decoded value is a record tagged by t: "null", "num", "bool",     *)
(*     "str", "arr", "obj", "enum".  Text (a JS string, and the decimal    *)
(*     rendering of a number) is a sequence of character codes;            *)
(*   - a reader returns [err, v, n]: err is TRUE when the code throws      *)
(*     (DataView RangeError), otherwise v is the value and n the cursor.   *)
(***************************************************************************)
EXTENDS Integers, Sequences, FiniteSets, TLC

VARIABLES
    idl,        \* the parsed schema document (Idl)
    bytes,      \* the account's raw bytes
    selected,   \* selectedIdlAccountName ("" = auto detect)
    pc,         \* position in parseAccountAutoOrSelected / parseAccountWithIdl
    idx,        \* index of the candidate of the for-of loop (1-based)
    hashed,     \* names anchorDiscriminatorForAccount was called with, in call order
    useOffset,  \* the offset the body starts at (8 in auto mode)
    ret,        \* what decodeStruct returned to the resolver
    result,     \* what the resolver's promise settled to
    curType,    \* decodeType probe: the type descriptor
    curOffset,  \* decodeType probe: the offset it is called with
    curRet,     \* decodeType probe: what it returned
    \* AccountDataTool component state
    address,    \* the address box
    idlText,    \* the IDL box
    selectedIdlAccountName,  \* the account type select ("" = auto detect)
    error,      \* the error line: the messages joined by "; ", as a sequence
    loading,    \* a Fetch is in flight (the Fetch button is disabled)
    meta,       \* account metadata shown, or null
    raw,        \* raw renderings shown, or null
    parsed,     \* decoded account shown, or null
    fpc,        \* position in onFetch: "idle", "fetching", "decoding"
    cap,        \* idlText and selectedIdlAccountName as the running onFetch closed over them
    info,       \* what getAccountInfo resolved to in the running or last onFetch
    cleared,    \* Clear was pressed and no Fetch was started since
    \* PDATool component state
    tool,       \* which of the two PDATool sources is mounted
    programId,  \* the program id box
    seed,       \* the four seed boxes, seed1..seed4
    pda,        \* derived address shown, or ""
    bump,       \* bump shown, or null
    pdaError,   \* the error line
    passed,     \* the seeds findProgramAddressSync was last called with
    \* SecretKeyTool component state
    input,      \* the private key box
    secretBase58,  \* base58 secret shown, or ""
    keyAddress, \* address shown, or ""
    keyError,   \* the error line
    converted   \* the input the last onConvert since Clear ran on, or null

resolverVars == <<idl, bytes, selected, pc, idx, hashed, useOffset, ret, result>>
probeVars == <<curType, curOffset, curRet>>
viewerVars == <<address, idlText, selectedIdlAccountName, error, loading, meta, raw,
                parsed, fpc, cap, info, cleared>>
pdaVars == <<tool, programId, seed, pda, bump, pdaError, passed>>
keyVars == <<input, secretBase58, keyAddress, keyError, converted>>

vars == <<resolverVars, probeVars, viewerVars, pdaVars, keyVars>>

-----------------------------------------------------------------------------
(* Bounds of the model *)

\* longest generated buffer body (every body over BodyBytes up to this length)
MaxBody == 4

\* byte values the generated bodies are made of: 0 (absent / empty / false),
\* 1 and 2 (small counts, tags, flags), 42 (a count or tag that is out of range)
BodyBytes == {0, 1, 2, 42}

\* a u32 count at or above 2^30 is carried as 2^30: it is far beyond every
\* modelled buffer, so every loop bound and cursor derived from it behaves alike
HugeCount == 1024 * 1024 * 1024

-----------------------------------------------------------------------------
(* Values and results *)

NullV == [t |-> "null"]
Ok(v, n) == [err |-> FALSE, v |-> v, n |-> n]
Err == [err |-> TRUE, v |-> NullV, n |-> 0]
\* a TypeError thrown where the schema lacks a key the decoder reads
SchemaErr == [err |-> TRUE, v |-> [t |-> "TypeError"], n |-> 0]

Min(a, b) == IF a < b THEN a ELSE b

\* Uint8Array.prototype.slice(s, e): both ends clamped to the length
Slice(b, s, e) == SubSeq(b, Min(s, Len(b)) + 1, Min(e, Len(b)))

\* decimal digits, least significant first, of d * m + c
RECURSIVE MulAdd(_, _, _)
MulAdd(d, m, c) ==
    IF d = <<>>
    THEN IF c = 0 THEN <<>> ELSE <<c % 10>> \o MulAdd(<<>>, m, c \div 10)
    ELSE LET x == Head(d) * m + c
         IN  <<x % 10>> \o MulAdd(Tail(d), m, x \div 10)

\* decimal digits, least significant first, of a little-endian byte string
RECURSIVE BigOf(_)
BigOf(bs) == IF bs = <<>> THEN <<>> ELSE MulAdd(BigOf(Tail(bs)), 256, Head(bs))

\* Number.prototype.toString / BigInt.prototype.toString of the magnitude
DigitsText(d) ==
    IF d = <<>> THEN <<48>>
    ELSE [i \in 1..Len(d) |-> 48 + d[Len(d) + 1 - i]]

\* the unsigned little-endian integer, as decimal text
UnsignedText(bs) == DigitsText(BigOf(bs))

\* the two's complement little-endian integer, as decimal text
SignedText(bs) ==
    IF bs[Len(bs)] < 128 THEN UnsignedText(bs)
    ELSE <<45>> \o DigitsText(MulAdd(BigOf([i \in 1..Len(bs) |-> 255 - bs[i]]), 1, 1))

Num(text) == [t |-> "num", v |-> text]
Str(text) == [t |-> "str", v |-> text]

\* DataView getters throw RangeError when offset + width exceeds the length
InRange(b, offset, width) == offset >= 0 /\ offset + width <= Len(b)

readInt(b, offset, width, signed) ==
    IF ~InRange(b, offset, width) THEN Err
    ELSE LET bs == SubSeq(b, offset + 1, offset + width)
         IN  Ok(Num(IF signed THEN SignedText(bs) ELSE UnsignedText(bs)), offset + width)

readU8(b, offset)  == readInt(b, offset, 1, FALSE)
readI8(b, offset)  == readInt(b, offset, 1, TRUE)
readU16(b, offset) == readInt(b, offset, 2, FALSE)
readI16(b, offset) == readInt(b, offset, 2, TRUE)
readU32(b, offset) == readInt(b, offset, 4, FALSE)
readI32(b, offset) == readInt(b, offset, 4, TRUE)

\* u64 / i64: getBigUint64 / getBigInt64, then v.toString()
readU64(b, offset) ==
    LET r == readInt(b, offset, 8, FALSE) IN IF r.err THEN Err ELSE Ok(Str(r.v.v), r.n)
readI64(b, offset) ==
    LET r == readInt(b, offset, 8, TRUE) IN IF r.err THEN Err ELSE Ok(Str(r.v.v), r.n)

\* the byte getUint8 returns (only where InRange)
getUint8(b, offset) == b[offset + 1]

\* the number getUint32 returns, as a loop bound or length (only where InRange)
getUint32(b, offset) ==
    IF b[offset + 4] >= 64 THEN HugeCount
    ELSE b[offset + 1] + 256 * b[offset + 2] + 65536 * b[offset + 3]
         + 16777216 * b[offset + 4]

readBool(b, offset) ==
    LET r == readU8(b, offset)
    IN  IF r.err THEN Err ELSE Ok([t |-> "bool", v |-> getUint8(b, offset) # 0], r.n)

\* slice() clamps and TextDecoder never throws: no bounds check on the payload.
\* Every modelled byte is ASCII, so the decoded text is the bytes' codes.
readString(b, offset) ==
    LET r == readU32(b, offset)
    IN  IF r.err THEN Err
        ELSE LET len == getUint32(b, offset)
             IN  Ok(Str(Slice(b, r.n, r.n + len)), r.n + len)

HexChar(d) == IF d < 10 THEN 48 + d ELSE 87 + d

\* b.toString(16).padStart(2, "0") of every byte, joined
toHex(bs) ==
    [i \in 1..(2 * Len(bs)) |->
        LET x == bs[(i + 1) \div 2]
        IN  IF i % 2 = 1 THEN HexChar(x \div 16) ELSE HexChar(x % 16)]

\* new PublicKey(slice).toBase58(): the constructor takes any input of at most
\* 32 bytes and pads it on the left to 32; the base58 text of those 32 bytes
\* is kept as the bytes themselves
publicKeyText(slice) ==
    [t |-> "pubkey", v |-> [i \in 1..32 |->
        IF i <= 32 - Len(slice) THEN 0 ELSE slice[i - (32 - Len(slice))]]]

-----------------------------------------------------------------------------
(* Schema lookups *)

NoDef == [kind |-> "null"]

Has(rec, key) == key \in DOMAIN rec

\* Array.prototype.find over (idl.accounts or idl.types) by name: the index of
\* the first entry of that name, 0 when there is none
FindByName(list, name) ==
    IF \E i \in 1..Len(list) : list[i].name = name
    THEN CHOOSE i \in 1..Len(list) :
            /\ list[i].name = name
            /\ \A j \in 1..(i - 1) : list[j].name # name
    ELSE 0

\* idl.types?.find((t) => t.name === name); def ? def.type : null
resolveDefined(schema, name) ==
    IF ~Has(schema, "types") THEN NoDef
    ELSE LET i == FindByName(schema.types, name)
         IN  IF i = 0 THEN NoDef ELSE schema.types[i].type

isStructType(x) == Has(x, "kind") /\ x.kind = "struct"
isEnumType(x)   == Has(x, "kind") /\ x.kind = "enum"
isStructFields(x) == Has(x, "kind") /\ x.kind = "struct"
isTupleFields(x)  == Has(x, "kind") /\ x.kind = "tuple"

\* Array.isArray(fields): a JSON array is kept as [items |-> <<...>>]
IsArray(x) == Has(x, "items")

\* typeof x === "object" and none of the keys vec, option, array, defined:
\* the first element of an array of fields is a named field {name, type}
LooksNamed(items) ==
    /\ Len(items) > 0
    /\ ~Has(items[1], "prim")
    /\ ~Has(items[1], "vec")
    /\ ~Has(items[1], "option")
    /\ ~Has(items[1], "array")
    /\ ~Has(items[1], "defined")

\* obj[key] = v
Put(obj, key, v) == [x \in (DOMAIN obj) \cup {key} |-> IF x = key THEN v ELSE obj[x]]

EmptyObj == [x \in {} |-> NullV]

-----------------------------------------------------------------------------
(* The type decoder *)

RECURSIVE decodeType(_, _, _, _)
RECURSIVE decodeElems(_, _, _, _, _, _)
RECURSIVE decodeFields(_, _, _, _, _)
RECURSIVE decodeTypes(_, _, _, _, _)

\* for (let i = 0; i < count; i++) { [v, n] = decodeType(...); out.push(v); off = n }
decodeElems(b, off, elem, count, schema, out) ==
    IF count <= 0 THEN Ok([t |-> "arr", v |-> out], off)
    ELSE LET r == decodeType(b, off, elem, schema)
         IN  IF r.err THEN r
             ELSE decodeElems(b, r.n, elem, count - 1, schema, Append(out, r.v))

\* for (const f of fields) { [v, n] = decodeType(..., f.type, ...); obj[f.name] = v; off = n }
decodeFields(b, off, fields, schema, obj) ==
    IF fields = <<>> THEN Ok([t |-> "obj", v |-> obj], off)
    ELSE LET r == decodeType(b, off, Head(fields).type, schema)
         IN  IF r.err THEN r
             ELSE decodeFields(b, r.n, Tail(fields), schema, Put(obj, Head(fields).name, r.v))

\* for (const t of types) { [v, n] = decodeType(..., t, ...); arr.push(v); off = n }
decodeTypes(b, off, types, schema, arr) ==
    IF types = <<>> THEN Ok([t |-> "arr", v |-> arr], off)
    ELSE LET r == decodeType(b, off, Head(types), schema)
         IN  IF r.err THEN r
             ELSE decodeTypes(b, r.n, Tail(types), schema, Append(arr, r.v))

\* mutant of readVec: one element more than the count is decoded
readVecOneMore(b, offset, elem, schema) ==
    LET r == readU32(b, offset)
    IN  IF r.err THEN Err
        ELSE decodeElems(b, r.n, elem, getUint32(b, offset) + 1, schema, <<>>)

readVec(b, offset, elem, schema) ==
    LET r == readU32(b, offset)
    IN  IF r.err THEN Err
        ELSE decodeElems(b, r.n, elem, getUint32(b, offset), schema, <<>>)

readArray(b, offset, elem, count, schema) ==
    decodeElems(b, offset, elem, count, schema, <<>>)

decodeStruct(b, offset, fields, schema) ==
    decodeFields(b, offset, fields, schema, EmptyObj)

\* the payload of a variant that has a fields key
decodePayload(b, no, fields, schema) ==
    IF IsArray(fields)
    THEN IF LooksNamed(fields.items)
         THEN decodeFields(b, no, fields.items, schema, EmptyObj)
         ELSE decodeTypes(b, no, fields.items, schema, <<>>)
    ELSE IF isStructFields(fields) THEN decodeFields(b, no, fields.fields, schema, EmptyObj)
    ELSE IF isTupleFields(fields) THEN decodeTypes(b, no, fields.types, schema, <<>>)
    ELSE Ok([t |-> "obj", v |-> EmptyObj], no)

\* mutant of decodeEnum: a tag that names no variant throws
decodeEnumStrictTag(b, offset, variants, schema) ==
    LET r == readU8(b, offset)
    IN  IF r.err THEN Err
        ELSE LET tag == getUint8(b, offset)
             IN  IF tag >= Len(variants) THEN Err
                 ELSE LET variant == variants[tag + 1]
                      IN  IF ~Has(variant, "fields")
                          THEN Ok([t |-> "enum", tag |-> r.v, name |-> variant.name], r.n)
                          ELSE LET p == decodePayload(b, r.n, variant.fields, schema)
                               IN  IF p.err THEN p
                                   ELSE Ok([t |-> "enum", tag |-> r.v,
                                            name |-> variant.name, value |-> p.v], p.n)

\* mutant of decodeEnum: the tag taken as a 1-based position
decodeEnumOneBased(b, offset, variants, schema) ==
    LET r == readU8(b, offset)
    IN  IF r.err THEN Err
        ELSE LET tag == getUint8(b, offset)
             IN  IF tag = 0 \/ tag > Len(variants)
                 THEN Ok([t |-> "enum", tag |-> r.v, name |-> "Unknown"], r.n)
                 ELSE LET variant == variants[tag]
                      IN  IF ~Has(variant, "fields")
                          THEN Ok([t |-> "enum", tag |-> r.v, name |-> variant.name], r.n)
                          ELSE LET p == decodePayload(b, r.n, variant.fields, schema)
                               IN  IF p.err THEN p
                                   ELSE Ok([t |-> "enum", tag |-> r.v,
                                            name |-> variant.name, value |-> p.v], p.n)

decodeEnum(b, offset, variants, schema) ==
    LET r == readU8(b, offset)
    IN  IF r.err THEN Err
        ELSE LET tag == getUint8(b, offset)
             IN  IF tag >= Len(variants)
                 THEN Ok([t |-> "enum", tag |-> r.v, name |-> "Unknown"], r.n)
                 ELSE LET variant == variants[tag + 1]
                      IN  IF ~Has(variant, "fields")
                          THEN Ok([t |-> "enum", tag |-> r.v, name |-> variant.name], r.n)
                          ELSE LET p == decodePayload(b, r.n, variant.fields, schema)
                               IN  IF p.err THEN p
                                   ELSE Ok([t |-> "enum", tag |-> r.v,
                                            name |-> variant.name, value |-> p.v], p.n)

decodePrim(b, offset, prim, schema) ==
    CASE prim = "u8"  -> readU8(b, offset)
      [] prim = "i8"  -> readI8(b, offset)
      [] prim = "u16" -> readU16(b, offset)
      [] prim = "i16" -> readI16(b, offset)
      [] prim = "u32" -> readU32(b, offset)
      [] prim = "i32" -> readI32(b, offset)
      [] prim = "u64" -> readU64(b, offset)
      [] prim = "i64" -> readI64(b, offset)
      [] prim = "bool" -> readBool(b, offset)
      [] prim = "string" -> readString(b, offset)
      [] prim = "publicKey" ->
            Ok(publicKeyText(Slice(b, offset, offset + 32)), offset + 32)
      [] prim = "bytes" ->
            LET r == readVec(b, offset, [prim |-> "u8"], schema)
            IN  IF r.err THEN r
                ELSE Ok(Str(<<48, 120>> \o toHex(SubSeq(b, offset + 5, r.n))), r.n)
      [] OTHER -> Ok(NullV, offset)

\* mutant of decodeDefined: an unresolved reference throws
decodeDefinedStrict(b, offset, name, schema) ==
    LET def == resolveDefined(schema, name)
    IN  IF def = NoDef THEN Err
        ELSE IF isStructType(def)
             THEN IF Has(def, "fields") THEN decodeStruct(b, offset, def.fields, schema)
                  ELSE SchemaErr
        ELSE IF isEnumType(def)
             THEN IF Has(def, "variants") THEN decodeEnum(b, offset, def.variants, schema)
                  ELSE IF readU8(b, offset).err THEN Err ELSE SchemaErr
        ELSE Ok(NullV, offset)

\* def.fields undefined: decodeStruct's for-of throws a TypeError before a byte
\* is read; def.variants undefined: decodeEnum throws at variants[tag], after
\* readU8
decodeDefined(b, offset, name, schema) ==
    LET def == resolveDefined(schema, name)
    IN  IF def = NoDef THEN Ok(NullV, offset)
        ELSE IF isStructType(def)
             THEN IF Has(def, "fields") THEN decodeStruct(b, offset, def.fields, schema)
                  ELSE SchemaErr
        ELSE IF isEnumType(def)
             THEN IF Has(def, "variants") THEN decodeEnum(b, offset, def.variants, schema)
                  ELSE IF readU8(b, offset).err THEN Err ELSE SchemaErr
        ELSE Ok(NullV, offset)

\* mutant of decodeOption: only the flag 1 counts as present
decodeOptionOnlyOne(b, offset, inner, schema) ==
    LET r == readU8(b, offset)
    IN  IF r.err THEN Err
        ELSE IF getUint8(b, offset) # 1 THEN Ok(NullV, r.n)
        ELSE decodeType(b, r.n, inner, schema)

decodeOption(b, offset, inner, schema) ==
    LET r == readU8(b, offset)
    IN  IF r.err THEN Err
        ELSE IF getUint8(b, offset) = 0 THEN Ok(NullV, r.n)
        ELSE decodeType(b, r.n, inner, schema)

decodeType(b, offset, type, schema) ==
    IF Has(type, "prim") THEN decodePrim(b, offset, type.prim, schema)
    ELSE IF Has(type, "vec") THEN readVec(b, offset, type.vec, schema)
    ELSE IF Has(type, "option") THEN decodeOption(b, offset, type.option, schema)
    ELSE IF Has(type, "array")
         THEN readArray(b, offset, type.array.elem, type.array.len, schema)
    ELSE IF Has(type, "defined") THEN decodeDefined(b, offset, type.defined, schema)
    ELSE Ok(NullV, offset)

-----------------------------------------------------------------------------
(* The schemas and buffers the model draws its inputs from *)

P(p) == [prim |-> p]
F(name, type) == [name |-> name, type |-> type]
Defined(name) == [defined |-> name]
StructOf(fields) == [kind |-> "struct", fields |-> fields]

\* enum Status: Idle (unit), Active { amount: u32 } (array of named fields),
\* Tagged(u8, u16) (array of types)
StatusVariants ==
    << [name |-> "Idle"],
       [name |-> "Active", fields |-> [items |-> <<F("amount", P("u32"))>>]],
       [name |-> "Tagged", fields |-> [items |-> <<P("u8"), P("u16")>>]] >>

\* enum Shape: the object forms of a variant's fields
ShapeVariants ==
    << [name |-> "Boxed", fields |-> StructOf(<<F("x", P("u8")), F("y", P("u16"))>>)],
       [name |-> "Pair", fields |-> [kind |-> "tuple", types |-> <<P("u8"), P("string")>>]],
       [name |-> "Odd", fields |-> [kind |-> "other"]] >>

\* enum Misc: an empty array of fields, a tuple whose first element is an
\* object type, a named payload that holds another enum
MiscVariants ==
    << [name |-> "Empty", fields |-> [items |-> <<>>]],
       [name |-> "Blob", fields |-> [items |-> <<[vec |-> P("u8")], P("u8")>>]],
       [name |-> "Inner", fields |-> [items |-> <<F("inner", Defined("Status"))>>]] >>

RichTypes ==
    << [name |-> "Status", type |-> [kind |-> "enum", variants |-> StatusVariants]],
       [name |-> "Shape", type |-> [kind |-> "enum", variants |-> ShapeVariants]],
       [name |-> "Misc", type |-> [kind |-> "enum", variants |-> MiscVariants]],
       [name |-> "Point", type |-> StructOf(<<F("x", P("u8")), F("y", P("u16"))>>)],
       [name |-> "VaultData",
        type |-> StructOf(<<F("status", Defined("Status")), F("label", P("string"))>>)],
       [name |-> "Config", type |-> StructOf(<<F("flag", P("bool")), F("n", P("u16"))>>)],
       [name |-> "Alias", type |-> [kind |-> "alias"]] >>

\* Scenario A: one account type with inline fields, no types list
CounterIdl ==
    [accounts |-> <<[name |-> "Counter", type |-> StructOf(<<F("count", P("u64"))>>)]>>]

\* accounts declared by reference, inline, and by a same-named types entry
RichIdl ==
    [accounts |-> << [name |-> "Vault", type |-> Defined("VaultData")],
                     [name |-> "Counter",
                      type |-> StructOf(<<F("count", P("u32")), F("tail", P("u8"))>>)],
                     [name |-> "Config"] >>,
     types |-> RichTypes]

\* the first account type has no field list: its reference does not resolve
DanglingIdl ==
    [accounts |-> << [name |-> "Vault", type |-> Defined("Missing")],
                     [name |-> "Counter",
                      type |-> StructOf(<<F("gap", Defined("Missing")), F("b", P("u8")),
                                          F("label", P("string"))>>)],
                     [name |-> "Config", type |-> Defined("Status")] >>,
     types |-> RichTypes]

\* the same name declared twice, and an account with no type at all
TwiceIdl ==
    [accounts |-> << [name |-> "Counter"],
                     [name |-> "Counter", type |-> StructOf(<<F("count", P("u8"))>>)],
                     [name |-> "Vault",
                      type |-> StructOf(<<F("key", P("publicKey")),
                                          F("items", [vec |-> P("u8")])>>)] >>,
     types |-> <<>>]

NoAccountsIdl == [types |-> RichTypes]
EmptyAccountsIdl == [accounts |-> <<>>, types |-> RichTypes]

\* references two deep: Vault names Alias, which is itself a reference to the
\* struct Point; Counter names Point directly
ChainIdl ==
    [accounts |-> << [name |-> "Vault", type |-> Defined("Alias")],
                     [name |-> "Counter", type |-> Defined("Point")] >>,
     types |-> << [name |-> "Alias", type |-> Defined("Point")],
                  [name |-> "Point", type |-> StructOf(<<F("x", P("u8")), F("y", P("u16"))>>)],
                  [name |-> "Vault", type |-> [kind |-> "enum", variants |-> StatusVariants]] >>]

Schemas ==
    {CounterIdl, RichIdl, DanglingIdl, TwiceIdl, NoAccountsIdl, EmptyAccountsIdl, ChainIdl}

\* the type descriptors the decodeType probe is called with
ProbeTypes ==
    {P(p) : p \in {"u8", "i8", "u16", "i16", "u32", "i32", "u64", "i64", "bool",
                   "string", "publicKey", "bytes", "u128"}}
    \cup {[vec |-> P("u8")], [vec |-> P("string")], [vec |-> Defined("Status")],
          [option |-> P("u16")], [option |-> P("string")], [option |-> Defined("Missing")],
          [array |-> [elem |-> P("u8"), len |-> 2]],
          [array |-> [elem |-> Defined("Point"), len |-> 2]],
          [array |-> [elem |-> P("u16"), len |-> 0]]}
    \cup {Defined(n) : n \in {"Status", "Shape", "Misc", "Point", "VaultData",
                              "Missing", "Alias"}}

\* every byte string over BodyBytes of length at most MaxBody
ShortBodies == UNION {[1..n -> BodyBytes] : n \in 0..MaxBody}

\* longer buffers: the spec's scenarios and the lengths the wide readers need
LongBodies ==
    { <<1, 42, 0, 0, 0>>,                   \* Scenario B: Status tag 1, amount 42
      <<7, 0, 0, 0, 0, 0, 0, 0>>,           \* Scenario A: u64 7
      <<2, 0, 0, 0, 1, 42>>,                \* a string of length 2, all present
      <<42, 0, 0, 0, 1>>,                   \* a string of length 42, one byte present
      <<1, 0, 0, 0, 1, 0, 0, 0, 42>>,       \* a vector of one string of length 1
      <<2, 1, 2, 0, 1, 0, 0, 0, 42, 0>>,
      <<0, 1, 0, 0, 0, 42>>,
      <<3, 0, 0, 0, 1, 2, 42>>,             \* a vector of u8 of count 3
      <<3, 1, 0>>,                          \* a tag one past Status's last variant
      [i \in 1..32 |-> i % 3],              \* a whole public key
      [i \in 1..37 |-> IF i = 33 THEN 1 ELSE 0] }

Bodies == ShortBodies \cup LongBodies

-----------------------------------------------------------------------------
(* The discriminator engine and the account resolver *)

\* length of a discriminator: hash.slice(0, 8), bytes.slice(0, 8), bytes.slice(8)
DiscLen == 8

\* the first 8 bytes of SHA-256("account:" + name), for the names of the schemas
anchorDiscriminatorForAccount(name) ==
    CASE name = "Counter" -> <<255, 176, 4, 245, 188, 253, 124, 25>>
      [] name = "Vault"   -> <<211, 8, 232, 43, 2, 152, 117, 119>>
      [] name = "Config"  -> <<155, 12, 170, 224, 30, 250, 204, 130>>

\* mutant of DiscMatches: only the bytes the buffer has are compared
DiscMatchesLoose(d, buf) == \A i \in 1..Len(d) : i > Len(buf) \/ buf[i] = d[i]

\* Array.from(d).every((v, i) => v === buf[i]); buf[i] is undefined past the end
DiscMatches(d, buf) == \A i \in 1..Len(d) : i <= Len(buf) /\ buf[i] = d[i]

hasAccountStruct(x)  == Has(x, "kind") /\ x.kind = "struct"
hasAccountDefined(x) == Has(x, "defined")

Fields(fields) == [found |-> TRUE, fields |-> fields]
NoFields == [found |-> FALSE, fields |-> <<>>]

\* idl.accounts ?? [] and idl.types ?? []
AccountsOf(schema) == IF Has(schema, "accounts") THEN schema.accounts ELSE <<>>
TypesOf(schema) == IF Has(schema, "types") THEN schema.types ELSE <<>>

\* return x.fields: undefined when the struct has no fields key, which the
\* callers' `if (!fields)` treats as null
FieldsOf(x) == IF Has(x, "fields") THEN Fields(x.fields) ELSE NoFields

\* the struct of the same name in idl.types
FieldsFromTypes(schema, name) ==
    LET i == FindByName(TypesOf(schema), name)
    IN  IF i # 0 /\ isStructType(schema.types[i].type)
        THEN FieldsOf(schema.types[i].type)
        ELSE NoFields

\* mutant of getAccountStructFields: no lookup of a same-named struct in types
getAccountStructFieldsNoFallback(schema, name) ==
    LET i == FindByName(AccountsOf(schema), name)
        acc == schema.accounts[i]
    IN  IF i # 0 /\ Has(acc, "type") /\ hasAccountStruct(acc.type)
        THEN FieldsOf(acc.type)
        ELSE IF /\ i # 0 /\ Has(acc, "type") /\ hasAccountDefined(acc.type)
                /\ isStructType(resolveDefined(schema, acc.type.defined))
        THEN FieldsOf(resolveDefined(schema, acc.type.defined))
        ELSE NoFields

getAccountStructFields(schema, name) ==
    LET i == FindByName(AccountsOf(schema), name)
        acc == schema.accounts[i]
    IN  IF i # 0 /\ Has(acc, "type") /\ hasAccountStruct(acc.type)
        THEN FieldsOf(acc.type)
        ELSE IF /\ i # 0 /\ Has(acc, "type") /\ hasAccountDefined(acc.type)
                /\ isStructType(resolveDefined(schema, acc.type.defined))
        THEN FieldsOf(resolveDefined(schema, acc.type.defined))
        ELSE FieldsFromTypes(schema, name)

Pending  == [kind |-> "pending"]
NoMatch  == [kind |-> "null"]
Rejected == [kind |-> "error"]
Account(name, data) == [kind |-> "account", accountName |-> name, data |-> data]

NoRet == [err |-> FALSE, v |-> NullV, n |-> -1]

\* mutant of DecodeAccount: the discriminator is not stripped from the body
DecodeAccountNoStrip(name, fields, from) ==
    LET r == decodeStruct(bytes, 0, fields, idl)
    IN  /\ useOffset' = from
        /\ ret' = r
        /\ result' = IF r.err THEN Rejected ELSE Account(name, r.v)
        /\ pc' = "done"

\* body = bytes.slice(from); [obj] = decodeStruct(view, body, 0, fields, idl);
\* return { accountName, data: obj }  -- a throw rejects the promise
DecodeAccount(name, fields, from) ==
    LET r == decodeStruct(Slice(bytes, from, Len(bytes)), 0, fields, idl)
    IN  /\ useOffset' = from
        /\ ret' = r
        /\ result' = IF r.err THEN Rejected ELSE Account(name, r.v)
        /\ pc' = "done"

Settle(value) ==
    /\ result' = value
    /\ pc' = "done"
    /\ UNCHANGED <<useOffset, ret>>

\* parseAccountAutoOrSelected with a selected name, up to its await
CallSelected ==
    /\ pc = "start"
    /\ selected # ""
    /\ LET i == FindByName(AccountsOf(idl), selected)
       IN  IF i = 0
           THEN Settle(NoMatch) /\ UNCHANGED <<idx, hashed>>
           ELSE IF Len(bytes) >= DiscLen
           THEN /\ hashed' = Append(hashed, idl.accounts[i].name)
                /\ idx' = i
                /\ pc' = "awaitSelected"
                /\ UNCHANGED <<useOffset, ret, result>>
           ELSE LET fields == getAccountStructFields(idl, idl.accounts[i].name)
                IN  /\ idx' = i
                    /\ UNCHANGED hashed
                    /\ IF fields.found
                       THEN DecodeAccount(idl.accounts[i].name, fields.fields, 0)
                       ELSE Settle(NoMatch)
    /\ UNCHANGED <<idl, bytes, selected, curType, curOffset, curRet>>
    /\ UNCHANGED <<viewerVars, pdaVars, keyVars>>

\* mutant of ResumeSelected: 8 bytes are skipped whenever the buffer has them
ResumeSelectedAlwaysSkips ==
    /\ pc = "awaitSelected"
    /\ LET name == idl.accounts[idx].name
           fields == getAccountStructFields(idl, name)
       IN  IF fields.found
           THEN DecodeAccount(name, fields.fields, DiscLen)
           ELSE /\ useOffset' = DiscLen
                /\ result' = NoMatch
                /\ pc' = "done"
                /\ UNCHANGED ret
    /\ UNCHANGED <<idl, bytes, selected, idx, hashed, curType, curOffset, curRet>>
    /\ UNCHANGED <<viewerVars, pdaVars, keyVars>>

\* mutant of ResumeSelected: a tag mismatch ends in NoMatch, as in auto-detect mode
ResumeSelectedNeedsTag ==
    /\ pc = "awaitSelected"
    /\ LET name == idl.accounts[idx].name
           match == DiscMatches(anchorDiscriminatorForAccount(name), bytes)
           fields == getAccountStructFields(idl, name)
       IN  IF fields.found /\ match
           THEN DecodeAccount(name, fields.fields, DiscLen)
           ELSE /\ useOffset' = (IF match THEN DiscLen ELSE 0)
                /\ result' = NoMatch
                /\ pc' = "done"
                /\ UNCHANGED ret
    /\ UNCHANGED <<idl, bytes, selected, idx, hashed, curType, curOffset, curRet>>
    /\ UNCHANGED <<viewerVars, pdaVars, keyVars>>

\* parseAccountAutoOrSelected after the discriminator of the selected type arrived
ResumeSelected ==
    /\ pc = "awaitSelected"
    /\ LET name == idl.accounts[idx].name
           match == DiscMatches(anchorDiscriminatorForAccount(name), bytes)
           fields == getAccountStructFields(idl, name)
       IN  IF fields.found
           THEN DecodeAccount(name, fields.fields, IF match THEN DiscLen ELSE 0)
           ELSE /\ useOffset' = (IF match THEN DiscLen ELSE 0)
                /\ result' = NoMatch
                /\ pc' = "done"
                /\ UNCHANGED ret
    /\ UNCHANGED <<idl, bytes, selected, idx, hashed, curType, curOffset, curRet>>
    /\ UNCHANGED <<viewerVars, pdaVars, keyVars>>

\* the for-of loop of parseAccountWithIdl moves to candidate i: it calls
\* anchorDiscriminatorForAccount and awaits, or the loop has ended
NextCandidate(i) ==
    IF i <= Len(idl.accounts)
    THEN /\ idx' = i
         /\ hashed' = Append(hashed, idl.accounts[i].name)
         /\ pc' = "awaitAuto"
         /\ UNCHANGED <<useOffset, ret, result>>
    ELSE /\ Settle(NoMatch)
         /\ UNCHANGED <<idx, hashed>>

\* parseAccountAutoOrSelected without a selection: parseAccountWithIdl up to
\* its first await
CallAuto ==
    /\ pc = "start"
    /\ selected = ""
    /\ IF ~Has(idl, "accounts") \/ Len(AccountsOf(idl)) = 0
       THEN Settle(NoMatch) /\ UNCHANGED <<idx, hashed>>
       ELSE NextCandidate(1)
    /\ UNCHANGED <<idl, bytes, selected, curType, curOffset, curRet>>
    /\ UNCHANGED <<viewerVars, pdaVars, keyVars>>

\* mutant of ResumeAuto: the next candidate's discriminator is requested before
\* the match is acted on
ResumeAutoKeepsHashing ==
    /\ pc = "awaitAuto"
    /\ LET name == idl.accounts[idx].name
           disc == Slice(bytes, 0, DiscLen)
           fields == getAccountStructFields(idl, name)
       IN  IF DiscMatches(anchorDiscriminatorForAccount(name), disc) /\ fields.found
           THEN /\ DecodeAccount(name, fields.fields, DiscLen)
                /\ hashed' = IF idx < Len(idl.accounts)
                             THEN Append(hashed, idl.accounts[idx + 1].name)
                             ELSE hashed
                /\ UNCHANGED idx
           ELSE NextCandidate(idx + 1)
    /\ UNCHANGED <<idl, bytes, selected, curType, curOffset, curRet>>
    /\ UNCHANGED <<viewerVars, pdaVars, keyVars>>

\* parseAccountWithIdl after the discriminator of candidate idx arrived
ResumeAuto ==
    /\ pc = "awaitAuto"
    /\ LET name == idl.accounts[idx].name
           disc == Slice(bytes, 0, DiscLen)
           fields == getAccountStructFields(idl, name)
       IN  IF DiscMatches(anchorDiscriminatorForAccount(name), disc) /\ fields.found
           THEN DecodeAccount(name, fields.fields, DiscLen) /\ UNCHANGED <<idx, hashed>>
           ELSE NextCandidate(idx + 1)
    /\ UNCHANGED <<idl, bytes, selected, curType, curOffset, curRet>>
    /\ UNCHANGED <<viewerVars, pdaVars, keyVars>>

\* decodeType called once on the probe's inputs
Probe ==
    /\ pc = "probe"
    /\ curRet = NoRet
    /\ curRet' = decodeType(bytes, curOffset, curType, idl)
    /\ UNCHANGED <<idl, bytes, selected, pc, idx, hashed, useOffset, ret, result,
                   curType, curOffset>>
    /\ UNCHANGED <<viewerVars, pdaVars, keyVars>>

-----------------------------------------------------------------------------
(* Inputs *)

AccountNames == {"Counter", "Vault", "Config"}

\* "" is auto detect; "Ghost" is declared by no schema
Selections == {""} \cup AccountNames \cup {"Ghost"}

\* what a buffer starts with: nothing, a discriminator, a discriminator with
\* one byte changed, the first half of a discriminator
Prefixes ==
    {<<>>}
    \cup {anchorDiscriminatorForAccount(n) : n \in AccountNames}
    \cup {[anchorDiscriminatorForAccount("Counter") EXCEPT ![DiscLen] = 24],
          [anchorDiscriminatorForAccount("Vault") EXCEPT ![1] = 210],
          SubSeq(anchorDiscriminatorForAccount("Counter"), 1, 4)}

Buffers == {p \o b : p \in Prefixes, b \in Bodies}

\* the text of the IDL box: blank, text JSON.parse rejects, or the JSON text of
\* a schema document
BlankText == [kind |-> "blank"]
GarbageText == [kind |-> "garbage"]
JsonText(schema) == [kind |-> "json", value |-> schema]

NoCap == [kind |-> "none"]

\* the useState defaults of AccountDataTool
ViewerIdle ==
    /\ address = ""
    /\ idlText = BlankText
    /\ selectedIdlAccountName = ""
    /\ error = <<>>
    /\ loading = FALSE
    /\ meta = NullV
    /\ raw = NullV
    /\ parsed = NullV
    /\ fpc = "idle"
    /\ cap = NoCap
    /\ info = NullV
    /\ cleared = FALSE

NotCalled == [kind |-> "notCalled"]

\* findProgramAddressSync was called with these seeds
Called(seeds) == [kind |-> "called", seeds |-> seeds]

\* the useState defaults of PDATool
PdaIdle ==
    /\ programId = ""
    /\ seed = <<<<>>, <<>>, <<>>, <<>>>>
    /\ pda = Str(<<>>)
    /\ bump = NullV
    /\ pdaError = ""
    /\ passed = NotCalled

\* the useState defaults of SecretKeyTool
KeyIdle ==
    /\ input = <<>>
    /\ secretBase58 = Str(<<>>)
    /\ keyAddress = Str(<<>>)
    /\ keyError = ""
    /\ converted = NullV

\* a resolver call: parseAccountAutoOrSelected(bytes, idl, selected)
Init ==
    /\ idl \in Schemas
    /\ bytes \in Buffers
    /\ selected \in Selections
    /\ pc = "start"
    /\ idx = 0
    /\ hashed = <<>>
    /\ useOffset = 0
    /\ ret = NoRet
    /\ result = Pending
    /\ curType = P("u8")
    /\ curOffset = 0
    /\ curRet = NoRet
    /\ ViewerIdle
    /\ tool = "PDATool.tsx"
    /\ PdaIdle
    /\ KeyIdle

Next == CallSelected \/ ResumeSelected \/ CallAuto \/ ResumeAuto

Spec == Init /\ [][Next]_vars

\* a decodeType call: decodeType(view, bytes, curOffset, curType, idl)
InitDecode ==
    /\ idl = RichIdl
    /\ bytes \in Bodies
    /\ curType \in ProbeTypes
    /\ curOffset \in 0..(Len(bytes) + 1)
    /\ curRet = NoRet
    /\ selected = ""
    /\ pc = "probe"
    /\ idx = 0
    /\ hashed = <<>>
    /\ useOffset = 0
    /\ ret = NoRet
    /\ result = Pending
    /\ ViewerIdle
    /\ tool = "PDATool.tsx"
    /\ PdaIdle
    /\ KeyIdle

NextDecode == Probe

SpecDecode == InitDecode /\ [][NextDecode]_vars

-----------------------------------------------------------------------------
(* The Account Data Viewer: onFetch and Clear *)

\* the index of a 6-bit group in the base64 alphabet, as a character code
Base64Char(i) ==
    IF i < 26 THEN 65 + i
    ELSE IF i < 52 THEN 97 + (i - 26)
    ELSE IF i < 62 THEN 48 + (i - 52)
    ELSE IF i = 62 THEN 43 ELSE 47

\* btoa over the bytes: three bytes give four characters, "=" pads the last group
RECURSIVE toBase64(_)
toBase64(bs) ==
    IF bs = <<>> THEN <<>>
    ELSE IF Len(bs) = 1
         THEN <<Base64Char(bs[1] \div 4), Base64Char((bs[1] % 4) * 16), 61, 61>>
    ELSE IF Len(bs) = 2
         THEN <<Base64Char(bs[1] \div 4),
                Base64Char((bs[1] % 4) * 16 + bs[2] \div 16),
                Base64Char((bs[2] % 16) * 4), 61>>
    ELSE <<Base64Char(bs[1] \div 4),
           Base64Char((bs[1] % 4) * 16 + bs[2] \div 16),
           Base64Char((bs[2] % 16) * 4 + bs[3] \div 64),
           Base64Char(bs[3] % 64)>> \o toBase64(SubSeq(bs, 4, Len(bs)))

\* bytes per group of the hex rendering: chunkedHex(data, 16)
HexChunk == 16

\* hex.slice(i, i + chunk * 2) pieces joined by " "
RECURSIVE JoinChunks(_, _)
JoinChunks(hex, chunk) ==
    IF Len(hex) <= chunk * 2 THEN hex
    ELSE SubSeq(hex, 1, chunk * 2) \o <<32>> \o JoinChunks(SubSeq(hex, chunk * 2 + 1, Len(hex)), chunk)

chunkedHex(bs, chunk) == JoinChunks(toHex(bs), chunk)

\* Array.from(data).join(",")
RECURSIVE JoinDecimal(_)
JoinDecimal(bs) ==
    IF bs = <<>> THEN <<>>
    ELSE IF Len(bs) = 1 THEN UnsignedText(<<bs[1]>>)
    ELSE UnsignedText(<<bs[1]>>) \o <<44>> \o JoinDecimal(Tail(bs))

\* "[" + Array.from(data).join(",") + "]"
bytesText(bs) == <<91>> \o JoinDecimal(bs) \o <<93>>

\* setMeta({lamports, owner, executable, rentEpoch: info.rentEpoch ?? null})
MetaOf(i) ==
    [lamports |-> i.lamports, owner |-> i.owner, executable |-> i.executable,
     rentEpoch |-> IF i.rentEpoch = "undefined" THEN "null" ELSE i.rentEpoch]

\* setRaw({base64, hex: "0x" + hex, bytes: bytesText})
RawOf(data) ==
    [base64 |-> toBase64(data),
     hex |-> <<48, 120>> \o chunkedHex(data, HexChunk),
     bytes |-> bytesText(data)]

\* new PublicKey(address.trim()) accepts the base58 text of 32 bytes
ValidAddress(a) == a \in {"Addr1", "Addr2"}

\* the message of what a decode threw
ThrownText(r) ==
    IF r.v.t = "TypeError" THEN "TypeError: undefined is not iterable"
    ELSE "RangeError: Offset is outside the bounds of the DataView"

\* the schema of the resolver while no call is running
NoIdl == [accounts |-> <<>>]

ResolverIdle ==
    /\ idl = NoIdl
    /\ bytes = <<>>
    /\ selected = ""
    /\ pc = "idle"
    /\ idx = 0
    /\ hashed = <<>>
    /\ useOffset = 0
    /\ ret = NoRet
    /\ result = Pending

ResolverReset ==
    /\ idl' = NoIdl
    /\ bytes' = <<>>
    /\ selected' = ""
    /\ pc' = "idle"
    /\ idx' = 0
    /\ hashed' = <<>>
    /\ useOffset' = 0
    /\ ret' = NoRet
    /\ result' = Pending

\* a struct or enum without the key the decoder iterates, an account declared
\* as a struct without fields
MalformedIdl ==
    [accounts |-> << [name |-> "Counter",
                      type |-> StructOf(<<F("count", P("u8")), F("mode", Defined("Shaky"))>>)],
                     [name |-> "Vault",
                      type |-> StructOf(<<F("n", P("u8")), F("tail", Defined("Broken"))>>)],
                     [name |-> "Config", type |-> [kind |-> "struct"]] >>,
     types |-> << [name |-> "Broken", type |-> [kind |-> "struct"]],
                  [name |-> "Shaky", type |-> [kind |-> "enum"]] >>]

ViewerTexts ==
    {BlankText, GarbageText, JsonText(RichIdl), JsonText(MalformedIdl), JsonText(CounterIdl)}

ViewerAddresses == {"", "not base58", "Addr1"}

\* the options of the account type select: JSON.parse(idlText).accounts' names
safeIdlAccountNames(text) ==
    IF text.kind = "json"
    THEN {text.value.accounts[k].name : k \in 1..Len(AccountsOf(text.value))}
    ELSE {}

\* the account data the network returns
ViewerData ==
    { <<>>,
      <<1, 42, 0, 0, 0>>,
      anchorDiscriminatorForAccount("Counter") \o <<7>>,
      anchorDiscriminatorForAccount("Counter") \o <<7, 0, 0, 0, 1>>,
      anchorDiscriminatorForAccount("Vault") \o <<1, 0, 0, 0, 1, 1, 0, 0, 0, 42>> }

AccountInfos ==
    {[data |-> d, lamports |-> "890880", owner |-> "Owner1", executable |-> FALSE,
      rentEpoch |-> e] : d \in ViewerData, e \in {"undefined", "361"}}

\* what conn.getAccountInfo settles to: a rejection, null, an account
Replies ==
    {[kind |-> "reject"], [kind |-> "null"]}
    \cup {[kind |-> "info", info |-> i] : i \in AccountInfos}

\* a click or keystroke can be handled: no synchronous stretch of onFetch is
\* under way (onFetch yields only at its awaits)
Interruptible ==
    \/ fpc \in {"idle", "fetching"}
    \/ fpc = "decoding" /\ pc \in {"awaitSelected", "awaitAuto"}

\* onChange of the address box
setAddress ==
    /\ Interruptible
    /\ \E a \in ViewerAddresses : address' = a
    /\ address' # address
    /\ UNCHANGED <<idlText, selectedIdlAccountName, error, loading, meta, raw, parsed,
                   fpc, cap, info, cleared>>
    /\ UNCHANGED <<resolverVars, probeVars, pdaVars, keyVars>>

\* onChange of the IDL box
setIdlText ==
    /\ Interruptible
    /\ \E t \in ViewerTexts : idlText' = t
    /\ idlText' # idlText
    /\ UNCHANGED <<address, selectedIdlAccountName, error, loading, meta, raw, parsed,
                   fpc, cap, info, cleared>>
    /\ UNCHANGED <<resolverVars, probeVars, pdaVars, keyVars>>

\* onChange of the account type select, rendered while the IDL box is not blank
setSelectedIdlAccountName ==
    /\ Interruptible
    /\ idlText # BlankText
    /\ \E n \in {""} \cup safeIdlAccountNames(idlText) : selectedIdlAccountName' = n
    /\ selectedIdlAccountName' # selectedIdlAccountName
    /\ UNCHANGED <<address, idlText, error, loading, meta, raw, parsed,
                   fpc, cap, info, cleared>>
    /\ UNCHANGED <<resolverVars, probeVars, pdaVars, keyVars>>

\* the Fetch button (disabled while loading): onFetch up to the await of
\* getAccountInfo; a bad address throws into the outer catch
onFetch ==
    /\ ~loading
    /\ fpc = "idle"
    /\ meta' = NullV
    /\ raw' = NullV
    /\ parsed' = NullV
    /\ info' = NullV
    /\ cleared' = FALSE
    /\ cap' = [idlText |-> idlText, selected |-> selectedIdlAccountName]
    /\ IF ValidAddress(address)
       THEN /\ error' = <<>>
            /\ loading' = TRUE
            /\ fpc' = "fetching"
       ELSE /\ error' = <<"Invalid public key input">>
            /\ loading' = FALSE
            /\ fpc' = "idle"
    /\ ResolverReset
    /\ UNCHANGED <<address, idlText, selectedIdlAccountName>>
    /\ UNCHANGED <<probeVars, pdaVars, keyVars>>

\* onFetch after getAccountInfo settled, up to the call of
\* parseAccountAutoOrSelected
onFetchResponse ==
    /\ fpc = "fetching"
    /\ \E reply \in Replies :
          \/ /\ reply.kind = "reject"
             /\ error' = <<"failed to get info about account">>
             /\ loading' = FALSE
             /\ fpc' = "idle"
             /\ UNCHANGED <<meta, raw, info, resolverVars>>
          \/ /\ reply.kind = "null"
             /\ error' = <<"Account not found on selected network">>
             /\ loading' = FALSE
             /\ fpc' = "idle"
             /\ UNCHANGED <<meta, raw, info, resolverVars>>
          \/ /\ reply.kind = "info"
             /\ info' = reply.info
             /\ meta' = MetaOf(reply.info)
             /\ raw' = RawOf(reply.info.data)
             /\ \/ /\ cap.idlText.kind = "blank"
                   /\ loading' = FALSE
                   /\ fpc' = "idle"
                   /\ UNCHANGED <<error, resolverVars>>
                \/ /\ cap.idlText.kind = "garbage"
                   /\ error' = <<"SyntaxError: Unexpected token">>
                   /\ loading' = FALSE
                   /\ fpc' = "idle"
                   /\ UNCHANGED resolverVars
                \/ /\ cap.idlText.kind = "json"
                   /\ idl' = cap.idlText.value
                   /\ bytes' = reply.info.data
                   /\ selected' = cap.selected
                   /\ pc' = "start"
                   /\ fpc' = "decoding"
                   /\ UNCHANGED <<error, loading, idx, hashed, useOffset, ret, result>>
    /\ UNCHANGED <<address, idlText, selectedIdlAccountName, parsed, cap, cleared>>
    /\ UNCHANGED <<probeVars, pdaVars, keyVars>>

\* mutant of onFetchSettled: a decode that threw takes the raw renderings down
onFetchSettledDropsRaw ==
    /\ fpc = "decoding"
    /\ pc = "done"
    /\ \/ /\ result.kind = "account"
          /\ parsed' = [accountName |-> result.accountName, data |-> result.data]
          /\ UNCHANGED <<error, raw>>
       \/ /\ result = NoMatch
          /\ error' = Append(error, "IDL account type not matched")
          /\ UNCHANGED <<parsed, raw>>
       \/ /\ result = Rejected
          /\ error' = <<ThrownText(ret)>>
          /\ raw' = NullV
          /\ UNCHANGED parsed
    /\ loading' = FALSE
    /\ fpc' = "idle"
    /\ pc' = "idle"
    /\ UNCHANGED <<idl, bytes, selected, idx, hashed, useOffset, ret, result>>
    /\ UNCHANGED <<address, idlText, selectedIdlAccountName, meta, cap, info, cleared>>
    /\ UNCHANGED <<probeVars, pdaVars, keyVars>>

\* onFetch after parseAccountAutoOrSelected settled: setParsed, or the
\* "not matched" message appended, or the inner catch; then finally
onFetchSettled ==
    /\ fpc = "decoding"
    /\ pc = "done"
    /\ \/ /\ result.kind = "account"
          /\ parsed' = [accountName |-> result.accountName, data |-> result.data]
          /\ UNCHANGED error
       \/ /\ result = NoMatch
          /\ error' = Append(error, "IDL account type not matched")
          /\ UNCHANGED parsed
       \/ /\ result = Rejected
          /\ error' = <<ThrownText(ret)>>
          /\ UNCHANGED parsed
    /\ loading' = FALSE
    /\ fpc' = "idle"
    /\ pc' = "idle"
    /\ UNCHANGED <<idl, bytes, selected, idx, hashed, useOffset, ret, result>>
    /\ UNCHANGED <<address, idlText, selectedIdlAccountName, meta, raw, cap, info, cleared>>
    /\ UNCHANGED <<probeVars, pdaVars, keyVars>>

\* the Clear button
onClear ==
    /\ Interruptible
    /\ address' = ""
    /\ idlText' = BlankText
    /\ error' = <<>>
    /\ meta' = NullV
    /\ raw' = NullV
    /\ parsed' = NullV
    /\ cleared' = TRUE
    /\ UNCHANGED <<selectedIdlAccountName, loading, fpc, cap, info>>
    /\ UNCHANGED <<resolverVars, probeVars, pdaVars, keyVars>>

InitViewer ==
    /\ ViewerIdle
    /\ ResolverIdle
    /\ curType = P("u8")
    /\ curOffset = 0
    /\ curRet = NoRet
    /\ tool = "PDATool.tsx"
    /\ PdaIdle
    /\ KeyIdle

NextViewer ==
    \/ setAddress
    \/ setIdlText
    \/ setSelectedIdlAccountName
    \/ onFetch
    \/ onFetchResponse
    \/ CallSelected
    \/ ResumeSelected
    \/ CallAuto
    \/ ResumeAuto
    \/ onFetchSettled
    \/ onClear

SpecViewer == InitViewer /\ [][NextViewer]_vars

-----------------------------------------------------------------------------
(* Text helpers of the PDA and private key tools *)

RECURSIVE TrimLeft(_)
TrimLeft(t) == IF t # <<>> /\ Head(t) = 32 THEN TrimLeft(Tail(t)) ELSE t

RECURSIVE TrimRight(_)
TrimRight(t) ==
    IF t # <<>> /\ t[Len(t)] = 32 THEN TrimRight(SubSeq(t, 1, Len(t) - 1)) ELSE t

\* String.prototype.trim (the space is the only whitespace in the model's texts)
trim(t) == TrimRight(TrimLeft(t))

\* UTF-8 of one code point below 2048
Utf8Char(c) == IF c < 128 THEN <<c>> ELSE <<192 + (c \div 64), 128 + (c % 64)>>

\* UTF-8 of a text: Buffer.from(s), new TextEncoder().encode(t)
RECURSIVE Utf8(_)
Utf8(t) == IF t = <<>> THEN <<>> ELSE Utf8Char(Head(t)) \o Utf8(Tail(t))

\* n copies of `piece` joined by `sep`
Repeat(n, piece, sep) ==
    IF n <= 0 THEN <<>>
    ELSE LET unit == piece \o sep
         IN  [i \in 1..(n * Len(unit) - Len(sep)) |-> unit[((i - 1) % Len(unit)) + 1]]

\* the k-th smallest element of a set of numbers
Kth(S, k) == CHOOSE i \in S : Cardinality({j \in S : j <= i}) = k

-----------------------------------------------------------------------------
(* PDATool: onDerive of src/components/PDATool.tsx and of part_001 *)

\* the longest seed findProgramAddressSync and part_001 accept
MaxSeedLen == 32

\* the base58 alphabet of bs58, as character codes
Base58Alphabet ==
    <<49, 50, 51, 52, 53, 54, 55, 56, 57, 65, 66, 67, 68, 69, 70, 71, 72, 74, 75, 76, 77,
      78, 80, 81, 82, 83, 84, 85, 86, 87, 88, 89, 90, 97, 98, 99, 100, 101, 102, 103, 104,
      105, 106, 107, 109, 110, 111, 112, 113, 114, 115, 116, 117, 118, 119, 120, 121, 122>>

IsBase58(t) == \A i \in 1..Len(t) : \E k \in 1..Len(Base58Alphabet) : Base58Alphabet[k] = t[i]

Base58Digit(c) == (CHOOSE k \in 1..Len(Base58Alphabet) : Base58Alphabet[k] = c) - 1

\* the number a base58 text denotes (exact for the texts of up to 5 characters
\* the model decodes)
RECURSIVE Base58Value(_)
Base58Value(t) ==
    IF t = <<>> THEN 0
    ELSE Base58Value(SubSeq(t, 1, Len(t) - 1)) * Len(Base58Alphabet) + Base58Digit(t[Len(t)])

\* the big-endian bytes of a number, without leading zeros
RECURSIVE BytesOfNumber(_)
BytesOfNumber(v) == IF v = 0 THEN <<>> ELSE BytesOfNumber(v \div 256) \o <<v % 256>>

RECURSIVE LeadingOnes(_)
LeadingOnes(t) == IF t # <<>> /\ Head(t) = 49 THEN 1 + LeadingOnes(Tail(t)) ELSE 0

\* bs58.decode of a base58 text: a zero byte per leading "1", then the number
bs58decode(t) == [k \in 1..LeadingOnes(t) |-> 0] \o BytesOfNumber(Base58Value(t))

IsHexDigit(c) == (c >= 48 /\ c <= 57) \/ (c >= 97 /\ c <= 102) \/ (c >= 65 /\ c <= 70)

HexDigit(c) == IF c <= 57 THEN c - 48 ELSE IF c >= 97 THEN c - 87 ELSE c - 55

\* /^0x[0-9a-fA-F]+$/.test(t)
IsHexText(t) ==
    /\ Len(t) >= 3
    /\ t[1] = 48
    /\ t[2] = 120
    /\ \A i \in 3..Len(t) : IsHexDigit(t[i])

\* parseInt(hex.slice(i, i + 2), 16) for every pair
HexBytes(hex) == [k \in 1..(Len(hex) \div 2) |-> HexDigit(hex[2 * k - 1]) * 16 + HexDigit(hex[2 * k])]

Parsed(bs) == [err |-> FALSE, bytes |-> bs]
Thrown(msg) == [err |-> TRUE, msg |-> msg]

\* part_001: hex after "0x", else base58 when it decodes to at most 32 bytes,
\* else the UTF-8 bytes of the text
parseSeedInput(s) ==
    LET t == trim(s)
    IN  IF t = <<>> THEN Parsed(<<>>)
        ELSE IF IsHexText(t)
             THEN IF (Len(t) - 2) % 2 # 0 THEN Thrown("Invalid hex seed: odd length")
                  ELSE Parsed(HexBytes(SubSeq(t, 3, Len(t))))
        ELSE IF IsBase58(t) /\ Len(bs58decode(t)) <= MaxSeedLen THEN Parsed(bs58decode(t))
        ELSE Parsed(Utf8(t))

\* new PublicKey(programId.trim()) does not throw
ValidProgramId(p) == p = "Prog1"

NonEmpty(b) == Len(b) > 0

\* the bump findProgramAddressSync finds
Bumps == {255, 254}

\* PublicKey.findProgramAddressSync(seeds, pid), then setPda and setBump; a
\* seed longer than 32 bytes makes it throw
Derive(seeds) ==
    /\ passed' = Called(seeds)
    /\ IF \E k \in 1..Len(seeds) : Len(seeds[k]) > MaxSeedLen
       THEN /\ pdaError' = "Max seed length exceeded"
            /\ pda' = Str(<<>>)
            /\ bump' = NullV
       ELSE /\ pdaError' = ""
            /\ pda' = [t |-> "pda", programId |-> programId, seeds |-> seeds]
            /\ \E b \in Bumps : bump' = b

DeriveThrows(msg) ==
    /\ pdaError' = msg
    /\ pda' = Str(<<>>)
    /\ bump' = NullV
    /\ passed' = NotCalled

\* src/components/PDATool.tsx: the seeds are Buffer.from(s) of the four boxes,
\* the empty buffers filtered out
onDerive ==
    /\ tool = "PDATool.tsx"
    /\ IF ~ValidProgramId(programId) THEN DeriveThrows("Invalid public key input")
       ELSE Derive(SelectSeq([i \in 1..4 |-> Utf8(seed[i])], NonEmpty))
    /\ UNCHANGED <<tool, programId, seed>>
    /\ UNCHANGED <<resolverVars, probeVars, viewerVars, keyVars>>

SeedTooLong ==
    <<"Seed 1 exceeds 32 bytes", "Seed 2 exceeds 32 bytes", "Seed 3 exceeds 32 bytes",
      "Seed 4 exceeds 32 bytes">>

\* part_001's loop over the four boxes from box i on: blank boxes are skipped,
\* the others go through parseSeedInput
RECURSIVE CollectSeeds(_, _)
CollectSeeds(i, seeds) ==
    IF i > 4 THEN Parsed(seeds)
    ELSE IF trim(seed[i]) = <<>> THEN CollectSeeds(i + 1, seeds)
    ELSE LET r == parseSeedInput(seed[i])
         IN  IF r.err THEN r
             ELSE IF Len(r.bytes) > MaxSeedLen THEN Thrown(SeedTooLong[i])
             ELSE CollectSeeds(i + 1, Append(seeds, r.bytes))

\* part_001: onDerive
onDeriveParsed ==
    /\ tool = "part_001"
    /\ IF ~ValidProgramId(programId) THEN DeriveThrows("Invalid public key input")
       ELSE LET r == CollectSeeds(1, <<>>)
            IN  IF r.err THEN DeriveThrows(r.msg) ELSE Derive(r.bytes)
    /\ UNCHANGED <<tool, programId, seed>>
    /\ UNCHANGED <<resolverVars, probeVars, viewerVars, keyVars>>

\* the Clear button of PDATool (the same in both sources)
onClearPda ==
    /\ programId' = ""
    /\ seed' = <<<<>>, <<>>, <<>>, <<>>>>
    /\ pda' = Str(<<>>)
    /\ bump' = NullV
    /\ pdaError' = ""
    /\ passed' = NotCalled
    /\ UNCHANGED tool
    /\ UNCHANGED <<resolverVars, probeVars, viewerVars, keyVars>>

\* what the seed boxes hold: nothing, a space, "a", "0x01", "0x1", "vault",
\* "seed", an e with acute accent, 33 hyphens
SeedTexts ==
    { <<>>, <<32>>, <<97>>, <<48, 120, 48, 49>>, <<48, 120, 49>>,
      <<118, 97, 117, 108, 116>>, <<115, 101, 101, 100>>, <<233>>,
      Repeat(MaxSeedLen + 1, <<45>>, <<>>) }

ProgramIds == {"", "Prog1"}

Tools == {"PDATool.tsx", "part_001"}

\* PDATool with its boxes filled in
InitPda ==
    /\ tool \in Tools
    /\ programId \in ProgramIds
    /\ seed \in [1..4 -> SeedTexts]
    /\ pda = Str(<<>>)
    /\ bump = NullV
    /\ pdaError = ""
    /\ passed = NotCalled
    /\ ResolverIdle
    /\ curType = P("u8")
    /\ curOffset = 0
    /\ curRet = NoRet
    /\ ViewerIdle
    /\ KeyIdle

NextPda == onDerive \/ onDeriveParsed \/ onClearPda

SpecPda == InitPda /\ [][NextPda]_vars

-----------------------------------------------------------------------------
(* SecretKeyTool: parseInputToBytes, onConvert and Clear *)

SeedLen == 32
SecretLen == 64

NaN == -1

IsDigits(t) == t # <<>> /\ \A i \in 1..Len(t) : t[i] >= 48 /\ t[i] <= 57

RECURSIVE DecimalValue(_)
DecimalValue(t) ==
    IF t = <<>> THEN 0 ELSE DecimalValue(SubSeq(t, 1, Len(t) - 1)) * 10 + (t[Len(t)] - 48)

\* Number(v) of a token without sign, point, exponent or radix prefix
NumberOf(token) == IF IsDigits(token) THEN DecimalValue(token) ELSE NaN

\* the byte new Uint8Array([...]) stores for a number
ToUint8(n) == IF n = NaN THEN 0 ELSE n % 256

\* split(/[,\s]+/).filter(Boolean): the pieces between runs of commas and spaces
SplitRuns(t) ==
    LET IsSep(i) == t[i] \in {44, 32}
        starts == {i \in 1..Len(t) : ~IsSep(i) /\ (i = 1 \/ IsSep(i - 1))}
        ends == {i \in 1..Len(t) : ~IsSep(i) /\ (i = Len(t) \/ IsSep(i + 1))}
    IN  [k \in 1..Cardinality(starts) |-> SubSeq(t, Kth(starts, k), Kth(ends, k))]

\* the pieces between single commas, empty pieces kept
SplitCommas(t) ==
    LET commas == {i \in 1..Len(t) : t[i] = 44}
        From(k) == IF k = 1 THEN 1 ELSE Kth(commas, k - 1) + 1
        To(k) == IF k = Cardinality(commas) + 1 THEN Len(t) ELSE Kth(commas, k) - 1
    IN  [k \in 1..(Cardinality(commas) + 1) |-> SubSeq(t, From(k), To(k))]

\* a JSON number without sign, fraction or exponent
IsJsonNumber(t) == IsDigits(t) /\ (Len(t) = 1 \/ t[1] # 48)

\* JSON.parse(trimmed) gives an array: for the model's texts (digits, letters,
\* commas, spaces, brackets at the ends) that is a bracketed, comma separated
\* list of numbers
JsonArray(t) ==
    IF Len(t) < 2 \/ t[1] # 91 \/ t[Len(t)] # 93 THEN [ok |-> FALSE, items |-> <<>>]
    ELSE LET inner == SubSeq(t, 2, Len(t) - 1)
             pieces == SplitCommas(inner)
         IN  IF trim(inner) = <<>> THEN [ok |-> TRUE, items |-> <<>>]
             ELSE IF \A k \in 1..Len(pieces) : IsJsonNumber(trim(pieces[k]))
                  THEN [ok |-> TRUE,
                        items |-> [k \in 1..Len(pieces) |-> DecimalValue(trim(pieces[k]))]]
             ELSE [ok |-> FALSE, items |-> <<>>]

NotBracket(c) == c \notin {91, 93}

parseInputToBytes(text) ==
    LET trimmed == trim(text)
        arr == JsonArray(trimmed)
        parts == SplitRuns(SelectSeq(trimmed, NotBracket))
    IN  IF arr.ok THEN [k \in 1..Len(arr.items) |-> ToUint8(arr.items[k])]
        ELSE [k \in 1..Len(parts) |-> ToUint8(NumberOf(parts[k]))]

\* setSecretBase58(bs58.encode(kp.secretKey)); setAddress(kp.publicKey.toBase58())
\* for the keypair of a 32-byte seed
ShowKeypair(seedBytes) ==
    /\ keyError' = ""
    /\ secretBase58' = [t |-> "base58", seed |-> seedBytes]
    /\ keyAddress' = [t |-> "address", seed |-> seedBytes]

ConvertThrows(msg) ==
    /\ keyError' = msg
    /\ secretBase58' = Str(<<>>)
    /\ keyAddress' = Str(<<>>)

\* mutant of onConvert: every length from 32 to 64 is accepted
onConvertLenient ==
    /\ converted' = [text |-> input]
    /\ LET bs == parseInputToBytes(input)
       IN  IF Len(bs) < SeedLen \/ Len(bs) > SecretLen
           THEN ConvertThrows("Expected an array private key of 32 or 64 bytes")
           ELSE ShowKeypair(SubSeq(bs, 1, SeedLen))
    /\ UNCHANGED input
    /\ UNCHANGED <<resolverVars, probeVars, viewerVars, pdaVars>>

\* the Convert button; Keypair.fromSecretKey throws when the last 32 bytes are
\* not the public key of the first 32
onConvert ==
    /\ converted' = [text |-> input]
    /\ LET bs == parseInputToBytes(input)
       IN  IF ~(Len(bs) = SecretLen \/ Len(bs) = SeedLen)
           THEN ConvertThrows("Expected an array private key of 32 or 64 bytes")
           ELSE IF Len(bs) = SecretLen
                THEN \/ ShowKeypair(SubSeq(bs, 1, SeedLen))
                     \/ ConvertThrows("provided secretKey is invalid")
           ELSE ShowKeypair(bs)
    /\ UNCHANGED input
    /\ UNCHANGED <<resolverVars, probeVars, viewerVars, pdaVars>>

\* the Clear button of SecretKeyTool
onClearKey ==
    /\ input' = <<>>
    /\ secretBase58' = Str(<<>>)
    /\ keyAddress' = Str(<<>>)
    /\ keyError' = ""
    /\ converted' = NullV
    /\ UNCHANGED <<resolverVars, probeVars, viewerVars, pdaVars>>

\* "[" n numbers "]"
Bracketed(n, number) == <<91>> \o Repeat(n, number, <<44>>) \o <<93>>

KeyLengths == {0, 1, SeedLen - 1, SeedLen, SeedLen + 1, SecretLen - 1, SecretLen, SecretLen + 1}

\* what the private key box holds: JSON arrays of 7s of every length of
\* KeyLengths, of 300s, space separated lists, a list with a letter in it, a
\* list with a trailing comma, an unclosed list, nothing
KeyInputs ==
    {Bracketed(n, <<55>>) : n \in KeyLengths}
    \cup {Bracketed(SeedLen, <<51, 48, 48>>)}
    \cup {Repeat(n, <<55>>, <<32>>) : n \in {SeedLen, SeedLen + 1, SecretLen}}
    \cup {<<91>> \o Repeat(SeedLen - 1, <<55>>, <<44>>) \o <<44, 107, 93>>,
          <<91>> \o Repeat(SeedLen, <<48, 55>>, <<44, 32>>) \o <<44, 93>>,
          <<32, 91>> \o Repeat(SecretLen, <<55>>, <<44>>),
          <<>>}

\* onChange of the private key box
setInput ==
    /\ \E t \in KeyInputs : input' = t
    /\ input' # input
    /\ UNCHANGED <<secretBase58, keyAddress, keyError, converted>>
    /\ UNCHANGED <<resolverVars, probeVars, viewerVars, pdaVars>>

InitKey ==
    /\ KeyIdle
    /\ ResolverIdle
    /\ curType = P("u8")
    /\ curOffset = 0
    /\ curRet = NoRet
    /\ ViewerIdle
    /\ tool = "PDATool.tsx"
    /\ PdaIdle

NextKey == setInput \/ onConvert \/ onClearKey

SpecKey == InitKey /\ [][NextKey]_vars

-----------------------------------------------------------------------------
(* Properties of the account resolver (checked under Spec) *)

\* the buffer starts with the whole discriminator of the account type `name`
StartsWithTag(name) ==
    /\ Len(bytes) >= 8
    /\ SubSeq(bytes, 1, 8) = anchorDiscriminatorForAccount(name)

\* the declared account types whose discriminator the buffer starts with
Matching == {i \in 1..Len(AccountsOf(idl)) : StartsWithTag(idl.accounts[i].name)}

FirstMatching == CHOOSE i \in Matching : \A j \in Matching : i <= j

Declared(name) == \E i \in 1..Len(AccountsOf(idl)) : idl.accounts[i].name = name

AutoDone == pc = "done" /\ selected = ""
ExplicitDone == pc = "done" /\ selected # ""

\* the outcome of decoding the buffer from offset `from` against `name`'s fields
Outcome(name, from) ==
    LET r == decodeStruct(SubSeq(bytes, from + 1, Len(bytes)), 0,
                          getAccountStructFields(idl, name).fields, idl)
    IN  IF r.err THEN Rejected ELSE Account(name, r.v)

ScenarioABytes == anchorDiscriminatorForAccount("Counter") \o <<7, 0, 0, 0, 0, 0, 0, 0>>

C2_ExplicitOffset ==
    (ExplicitDone /\ Declared(selected)) =>
        /\ useOffset = (IF StartsWithTag(selected) THEN 8 ELSE 0)
        /\ getAccountStructFields(idl, selected).found
              => result = Outcome(selected, IF StartsWithTag(selected) THEN 8 ELSE 0)
        /\ Len(bytes) < 8 => hashed = <<>>

C2_Witness ==
    /\ ExplicitDone
    /\ Declared(selected)
    /\ Len(bytes) > 8
    /\ ~StartsWithTag(selected)
    /\ useOffset = 0
    /\ result.kind = "account"

C4_AutoNoMatch ==
    (AutoDone /\ Matching = {}) => result = NoMatch

C4_Witness ==
    /\ AutoDone
    /\ Matching = {}
    /\ Len(AccountsOf(idl)) > 0
    /\ Len(bytes) >= 8
    /\ result = NoMatch

\* C6: an account decode that returns a data object has read no field past the
\* end of the body: a read that needs more bytes than remain ends the call in
\* an error.
C6_UnderrunAborts ==
    result.kind = "account" => ret.n <= Len(bytes) - useOffset

StartOf(body, fields, k) == decodeFields(body, 0, SubSeq(fields, 1, k - 1), idl, EmptyObj).n

Unresolvable(type) == Has(type, "defined") /\ resolveDefined(idl, type.defined) = NoDef

\* C9: an account decode that returns a data object has read no field at the
\* offset at which an earlier, unresolvable defined(name) field started.
C9_NoDesync ==
    result.kind = "account" =>
        LET fields == getAccountStructFields(idl, result.accountName).fields
            body == SubSeq(bytes, useOffset + 1, Len(bytes))
        IN  \A i \in 1..Len(fields) : \A j \in (i + 1)..Len(fields) :
                Unresolvable(fields[i].type)
                    => StartOf(body, fields, j) # StartOf(body, fields, i)

-----------------------------------------------------------------------------
(* The field list of an account type (checked under Spec) *)

\* the fields of the first types entry named T when it is a struct, as a
\* sequence of at most one field list
StructNamed(T) ==
    LET S == {k \in 1..Len(TypesOf(idl)) : idl.types[k].name = T}
    IN  IF S = {} THEN <<>>
        ELSE LET t == idl.types[CHOOSE k \in S : \A j \in S : k <= j].type
             IN  IF Has(t, "kind") /\ t.kind = "struct" /\ Has(t, "fields")
                 THEN <<t.fields>> ELSE <<>>

\* the field list C18 describes for the account type `name`
ExpectedFields(name) ==
    LET A == {k \in 1..Len(AccountsOf(idl)) : idl.accounts[k].name = name}
        acc == idl.accounts[CHOOSE k \in A : \A j \in A : k <= j]
    IN  IF A # {} /\ Has(acc, "type") /\ Has(acc.type, "kind") /\ acc.type.kind = "struct"
        THEN <<acc.type.fields>>
        ELSE IF /\ A # {} /\ Has(acc, "type") /\ Has(acc.type, "defined")
                /\ StructNamed(acc.type.defined) # <<>>
        THEN StructNamed(acc.type.defined)
        ELSE StructNamed(name)

\* the call's outcome is the decode of the body against `fields`, field by
\* field in the order of the list
DecodedInOrder(fields) ==
    LET body == SubSeq(bytes, useOffset + 1, Len(bytes))
        chain == decodeTypes(body, 0, [k \in 1..Len(fields) |-> fields[k].type], idl, <<>>)
    IN  IF chain.err THEN result = Rejected
        ELSE /\ result.kind = "account"
             /\ DOMAIN result.data.v = {fields[k].name : k \in 1..Len(fields)}
             /\ \A k \in 1..Len(fields) : result.data.v[fields[k].name] = chain.v.v[k]

\* C18: the field list of an account type is the account entry's inline struct
\* fields; else, when the entry is a reference defined(T) and T names a struct
\* in types, that struct's fields (one indirection: a T that is itself a
\* reference is not followed); else the fields of the struct of the account's
\* own name in types; else none (the resolver answers null). The fields are
\* decoded in declared order.
C18_AccountFields ==
    /\ (ExplicitDone /\ Declared(selected)) =>
          IF ExpectedFields(selected) = <<>> THEN result = NoMatch /\ ret = NoRet
          ELSE DecodedInOrder(ExpectedFields(selected)[1])
    /\ (AutoDone /\ result.kind = "account") =>
          /\ ExpectedFields(result.accountName) # <<>>
          /\ DecodedInOrder(ExpectedFields(result.accountName)[1])
    /\ (ExplicitDone /\ idl = ChainIdl /\ selected = "Vault") => result = NoMatch
    /\ (ExplicitDone /\ idl = ChainIdl /\ selected = "Counter" /\ bytes = <<1, 42, 0>>)
        => result = Account("Counter", [t |-> "obj",
                                        v |-> [x |-> Num(<<49>>), y |-> Num(<<52, 50>>)]])
    /\ (ExplicitDone /\ idl = RichIdl /\ selected = "Config" /\ bytes = <<1, 42, 0>>)
        => result = Account("Config", [t |-> "obj",
                                       v |-> [flag |-> [t |-> "bool", v |-> TRUE],
                                              n |-> Num(<<52, 50>>)]])
    /\ (ExplicitDone /\ idl = DanglingIdl /\ selected = "Vault") => result = NoMatch

C18_Witness ==
    /\ ExplicitDone
    /\ idl = RichIdl
    /\ selected = "Vault"
    /\ StartsWithTag("Vault")
    /\ result.kind = "account"
    /\ result.data.v.status.name = "Active"
    /\ result.data.v.label.v # <<>>

-----------------------------------------------------------------------------
(* Properties of the type decoder (checked under SpecDecode) *)

Probed == pc = "probe" /\ curRet # NoRet

\* C5: a decodeType call that starts inside the buffer and returns, returns a
\* cursor that is at least the offset it was called with and at most the
\* buffer length.
C5_CursorWithinBuffer ==
    (Probed /\ ~curRet.err /\ curOffset <= Len(bytes)) =>
        /\ curOffset <= curRet.n
        /\ curRet.n <= Len(bytes)

\* C8: decoding defined(name) when the types list has no entry of that name
\* yields null, raises no error and returns the offset it was called with.
C8_UnresolvedDefinedIsNull ==
    (Probed /\ Has(curType, "defined")
        /\ \A i \in 1..Len(TypesOf(idl)) : idl.types[i].name # curType.defined)
    => curRet = [err |-> FALSE, v |-> [t |-> "null"], n |-> curOffset]

C8_Witness ==
    /\ Probed
    /\ curType = Defined("Missing")
    /\ curOffset > 0
    /\ curOffset < Len(bytes)
    /\ ~curRet.err
    /\ curRet.n = curOffset

\* the payload shape a variant declares
ShapeOf(variant) ==
    IF ~Has(variant, "fields") THEN "unit"
    ELSE IF Has(variant.fields, "items")
         THEN IF variant.fields.items # <<>>
                 /\ \A k \in 1..Len(variant.fields.items) : Has(variant.fields.items[k], "name")
              THEN "struct" ELSE "tuple"
    ELSE IF variant.fields.kind = "struct" THEN "struct"
    ELSE IF variant.fields.kind = "tuple" THEN "tuple"
    ELSE "other"

\* the named fields of a struct-shaped variant
NamedOf(variant) ==
    IF Has(variant.fields, "items") THEN variant.fields.items ELSE variant.fields.fields

\* the payload's type descriptors in declared order
PayloadTypes(variant) ==
    CASE ShapeOf(variant) = "struct" ->
            [k \in 1..Len(NamedOf(variant)) |-> NamedOf(variant)[k].type]
      [] ShapeOf(variant) = "tuple" ->
            IF Has(variant.fields, "items") THEN variant.fields.items
            ELSE variant.fields.types
      [] OTHER -> <<>>

EnumProbe ==
    /\ Probed
    /\ Has(curType, "defined")
    /\ isEnumType(resolveDefined(idl, curType.defined))
    /\ curOffset < Len(bytes)
    /\ bytes[curOffset + 1] < Len(resolveDefined(idl, curType.defined).variants)

\* C10: decoding an enum whose tag byte t is the index of a declared variant
\* gives {tag: t, name: the variant's name, value}, the payload decoded by the
\* variant's shape (unit: nothing, tuple: the values in declared order, struct:
\* the named fields in declared order) and the cursor right after the payload
\* (Scenario B: [Idle, Active{amount: u32}] and [1, 42, 0, 0, 0] give
\* {tag: 1, name: "Active", value: {amount: 42}} at cursor 5).
C10_EnumDecode ==
    /\ EnumProbe =>
        LET t == bytes[curOffset + 1]
            variant == resolveDefined(idl, curType.defined).variants[t + 1]
            shape == ShapeOf(variant)
            chain == decodeTypes(bytes, curOffset + 1, PayloadTypes(variant), idl, <<>>)
        IN  shape # "other" =>
              IF chain.err THEN curRet.err
              ELSE /\ ~curRet.err
                   /\ curRet.n = chain.n
                   /\ curRet.v.t = "enum"
                   /\ curRet.v.tag = Num(UnsignedText(<<t>>))
                   /\ curRet.v.name = variant.name
                   /\ CASE shape = "unit" ->
                              ~Has(curRet.v, "value") /\ curRet.n = curOffset + 1
                        [] shape = "tuple" -> curRet.v.value = chain.v
                        [] shape = "struct" ->
                              /\ curRet.v.value.t = "obj"
                              /\ DOMAIN curRet.v.value.v
                                    = {NamedOf(variant)[k].name : k \in 1..Len(NamedOf(variant))}
                              /\ \A k \in 1..Len(NamedOf(variant)) :
                                    curRet.v.value.v[NamedOf(variant)[k].name] = chain.v.v[k]
    /\ (Probed /\ curType = Defined("Status") /\ bytes = <<1, 42, 0, 0, 0>> /\ curOffset = 0)
        => curRet = [err |-> FALSE, n |-> 5,
                     v |-> [t |-> "enum", tag |-> [t |-> "num", v |-> <<49>>],
                            name |-> "Active",
                            value |-> [t |-> "obj",
                                       v |-> [amount |-> [t |-> "num", v |-> <<52, 50>>]]]]]

C10_Witness ==
    /\ EnumProbe
    /\ curOffset > 0
    /\ ~curRet.err
    /\ Has(curRet.v, "value")
    /\ curRet.v.value.t = "obj"
    /\ curRet.n > curOffset + 1
    /\ curRet.n = Len(bytes)

\* an enum decode whose tag byte names no declared variant
UnknownTagProbe ==
    /\ Probed
    /\ Has(curType, "defined")
    /\ isEnumType(resolveDefined(idl, curType.defined))
    /\ curOffset < Len(bytes)
    /\ bytes[curOffset + 1] >= Len(resolveDefined(idl, curType.defined).variants)

\* C11: decoding an enum whose tag byte t is greater than or equal to the
\* number of declared variants raises no error: it yields {tag: t, name:
\* "Unknown"} with no payload, and the cursor is the call's offset plus 1.
C11_UnknownVariant ==
    /\ UnknownTagProbe =>
          curRet = [err |-> FALSE, n |-> curOffset + 1,
                    v |-> [t |-> "enum",
                           tag |-> [t |-> "num", v |-> UnsignedText(<<bytes[curOffset + 1]>>)],
                           name |-> "Unknown"]]
    /\ (Probed /\ curType = Defined("Status") /\ bytes = <<3, 1, 0>> /\ curOffset = 0)
        => curRet = [err |-> FALSE, n |-> 1,
                     v |-> [t |-> "enum", tag |-> [t |-> "num", v |-> <<51>>],
                            name |-> "Unknown"]]

C11_Witness ==
    /\ UnknownTagProbe
    /\ bytes[curOffset + 1] = Len(resolveDefined(idl, curType.defined).variants)
    /\ curOffset + 1 < Len(bytes)
    /\ ~curRet.err
    /\ curRet.v.name = "Unknown"

\* the 4-byte little-endian count at the probe's offset
CountAt(o) ==
    bytes[o + 1] + 256 * bytes[o + 2] + 65536 * bytes[o + 3] + 16777216 * bytes[o + 4]

\* a vector decode whose count can be read
VecProbe == Probed /\ Has(curType, "vec") /\ curOffset + 4 <= Len(bytes)

\* C12: decoding `vector of T` reads a 4-byte little-endian count n and then n
\* elements of T, each starting where the previous one ended: the result has n
\* elements, the cursor is 4 bytes plus the elements' bytes past the offset, a
\* count of 0 gives the empty sequence at offset + 4, and the call fails when
\* one of the n elements cannot be read (a vector of u8 of count 3 consumes 7
\* bytes).
C12_VecDecode ==
    /\ VecProbe =>
          LET n == CountAt(curOffset)
          IN  IF n > Len(bytes) THEN curRet.err
              ELSE LET chain == decodeTypes(bytes, curOffset + 4,
                                            [k \in 1..n |-> curType.vec], idl, <<>>)
                   IN  IF chain.err THEN curRet.err
                       ELSE /\ curRet = [err |-> FALSE, v |-> chain.v, n |-> chain.n]
                            /\ Len(curRet.v.v) = n
                            /\ n = 0 => (curRet.n = curOffset + 4 /\ curRet.v.v = <<>>)
                            /\ curType.vec = P("u8") =>
                                  /\ curRet.n = curOffset + 4 + n
                                  /\ \A k \in 1..n :
                                        curRet.v.v[k]
                                          = Num(UnsignedText(<<bytes[curOffset + 4 + k]>>))
    /\ (Probed /\ curType = [vec |-> P("u8")] /\ bytes = <<3, 0, 0, 0, 1, 2, 42>>
           /\ curOffset = 0)
        => curRet = [err |-> FALSE, n |-> 7,
                     v |-> [t |-> "arr", v |-> << [t |-> "num", v |-> <<49>>],
                                                 [t |-> "num", v |-> <<50>>],
                                                 [t |-> "num", v |-> <<52, 50>>] >>]]

C12_Witness ==
    /\ VecProbe
    /\ CountAt(curOffset) = 3
    /\ ~curRet.err
    /\ Len(curRet.v.v) = 3
    /\ curRet.n = curOffset + 7

\* an option decode whose presence byte can be read
OptionProbe == Probed /\ Has(curType, "option") /\ curOffset < Len(bytes)

\* C13: decoding `option of T` reads one presence byte: 0 gives null and the
\* cursor offset + 1; any other value gives the result and the cursor of
\* decoding T at offset + 1.
C13_OptionDecode ==
    /\ OptionProbe =>
          IF bytes[curOffset + 1] = 0
          THEN curRet = [err |-> FALSE, v |-> [t |-> "null"], n |-> curOffset + 1]
          ELSE curRet = decodeType(bytes, curOffset + 1, curType.option, idl)
    /\ (Probed /\ curType = [option |-> P("u16")] /\ bytes = <<2, 42, 0>> /\ curOffset = 0)
        => curRet = [err |-> FALSE, n |-> 3, v |-> [t |-> "num", v |-> <<52, 50>>]]

C13_Witness ==
    /\ OptionProbe
    /\ bytes[curOffset + 1] > 1
    /\ ~curRet.err
    /\ curRet.v.t = "num"
    /\ curRet.n = curOffset + 3

-----------------------------------------------------------------------------
(* Properties of the Account Data Viewer (checked under SpecViewer) *)

\* the running or last Fetch retrieved an account and Clear was not pressed since
Retrieved == info # NullV /\ ~cleared

\* the Fetch has ended and its schema-based decode gave no result: the IDL text
\* did not parse, the decode threw, or no account type matched
DecodeFailed ==
    /\ fpc = "idle"
    /\ info # NullV
    /\ \/ cap.idlText.kind = "garbage"
       \/ cap.idlText.kind = "json" /\ result \in {NoMatch, Rejected}

\* C14: from the moment a Fetch has retrieved an existing account, the
\* metadata and the raw renderings (base64, hex in groups of 16 bytes, byte
\* list) of its data are shown and stay shown through the schema-based decode,
\* whatever its outcome; an IDL parse error, a decode error or NoMatch leaves
\* the parsed result empty and sets the error line.
C14_RawShownWhateverDecode ==
    /\ Retrieved =>
          /\ meta = [lamports |-> info.lamports, owner |-> info.owner,
                     executable |-> info.executable,
                     rentEpoch |-> IF info.rentEpoch = "undefined" THEN "null"
                                   ELSE info.rentEpoch]
          /\ raw = RawOf(info.data)
    /\ (Retrieved /\ info.data = <<1, 42, 0, 0, 0>>) =>
          raw = [base64 |-> <<65, 83, 111, 65, 65, 65, 65, 61>>,
                 hex |-> <<48, 120, 48, 49, 50, 97, 48, 48, 48, 48, 48, 48>>,
                 bytes |-> <<91, 49, 44, 52, 50, 44, 48, 44, 48, 44, 48, 93>>]
    /\ (Retrieved /\ Len(info.data) = 18) =>
          /\ raw.base64 = <<48, 119, 106, 111, 75, 119, 75, 89, 100, 88, 99, 66, 65, 65, 65,
                            65, 65, 81, 69, 65, 65, 65, 65, 113>>
          /\ raw.hex = <<48, 120, 100, 51, 48, 56, 101, 56, 50, 98, 48, 50, 57, 56, 55, 53,
                         55, 55, 48, 49, 48, 48, 48, 48, 48, 48, 48, 49, 48, 49, 48, 48, 48,
                         48, 32, 48, 48, 50, 97>>
    /\ (DecodeFailed /\ ~cleared) =>
          /\ parsed = NullV
          /\ Len(error) = 1
          /\ ~loading

C14_Witness ==
    /\ DecodeFailed
    /\ ~cleared
    /\ result = Rejected
    /\ Len(info.data) > HexChunk
    /\ raw # NullV
    /\ meta # NullV

\* the schema document lacks a key the decoder needs
MissingKeys(schema) ==
    \/ \E k \in 1..Len(TypesOf(schema)) :
          LET t == schema.types[k].type
          IN  \/ Has(t, "kind") /\ t.kind = "struct" /\ ~Has(t, "fields")
              \/ Has(t, "kind") /\ t.kind = "enum" /\ ~Has(t, "variants")
    \/ \E k \in 1..Len(AccountsOf(schema)) :
          /\ Has(schema.accounts[k], "type")
          /\ Has(schema.accounts[k].type, "kind")
          /\ schema.accounts[k].type.kind = "struct"
          /\ ~Has(schema.accounts[k].type, "fields")

\* the IDL text of the running or last Fetch is malformed
MalformedText ==
    /\ cap # NoCap
    /\ \/ cap.idlText.kind = "garbage"
       \/ cap.idlText.kind = "json" /\ MissingKeys(cap.idlText.value)

\* C15: when the schema document is malformed (unparsable, or a struct
\* without its fields list, an enum without its variants list), no account
\* byte is decoded: decodeStruct is never called, and a Fetch that retrieved
\* the account ends with the error line set and nothing parsed.
C15_MalformedRejectedBeforeDecode ==
    MalformedText =>
        /\ ret = NoRet
        /\ (fpc = "idle" /\ Retrieved) => (parsed = NullV /\ error # <<>>)

\* C19: after Clear is pressed, the metadata, the raw renderings and the
\* parsed result stay empty until the next Fetch is started.
C19_ClearedStaysEmpty ==
    cleared => (meta = NullV /\ raw = NullV /\ parsed = NullV)

-----------------------------------------------------------------------------
(* Properties of PDATool (checked under SpecPda) *)

\* C16: the seeds passed to findProgramAddressSync are the Buffer.from(seed)
\* bytes of the non-empty seed boxes, in the order seed 1 to seed 4, the empty
\* boxes left out; at most four seeds are passed.
C16_SeedsAsBufferFrom ==
    passed # NotCalled =>
        /\ Len(passed.seeds) <= 4
        /\ passed.seeds = SelectSeq([i \in 1..4 |-> Utf8(seed[i])], NonEmpty)

-----------------------------------------------------------------------------
(* Properties of SecretKeyTool (checked under SpecKey) *)

LengthError == "Expected an array private key of 32 or 64 bytes"

NoOutput == secretBase58 = Str(<<>>) /\ keyAddress = Str(<<>>)

\* C17: Convert shows a base58 secret and an address only for an input that
\* parses to exactly 32 or 64 bytes; for every other length it sets the error
\* "Expected an array private key of 32 or 64 bytes" and shows neither; after
\* any sequence of Convert and Clear (and edits of the box) the secret and the
\* address are non-empty only while the error is empty.
C17_ConvertLengthGate ==
    /\ ~NoOutput => (keyError = "" /\ converted # NullV)
    /\ converted # NullV =>
          LET n == Len(parseInputToBytes(converted.text))
          IN  /\ n \notin {32, 64} => (keyError = LengthError /\ NoOutput)
              /\ ~NoOutput =>
                    /\ n \in {32, 64}
                    /\ secretBase58.seed = SubSeq(parseInputToBytes(converted.text), 1, 32)
                    /\ keyAddress.seed = secretBase58.seed
              /\ keyError = "" => ~NoOutput
    /\ \A n \in {0, 1, 31, 33, 63, 65} :
          (converted # NullV /\ converted.text = Bracketed(n, <<55>>))
              => (keyError = LengthError /\ NoOutput)
    /\ (converted # NullV /\ converted.text = Bracketed(32, <<51, 48, 48>>))
          => secretBase58 = [t |-> "base58", seed |-> [k \in 1..32 |-> 44]]

C17_Witness ==
    /\ converted # NullV
    /\ Len(parseInputToBytes(converted.text)) = 64
    /\ ~NoOutput
    /\ input # converted.text
    /\ Len(parseInputToBytes(input)) = 33

=============================================================================
